---- MODULE Spec2Model ----
(***************************************************************************)
(* The realtime relay of the Erica backend proxy: the WebSocket server at  *)
(* /api/live (wss.on('connection') and the handlers it installs) together  *)
(* with the backend Live session each `connect` envelope creates.          *)
(*                                                                         *)
(* Node runs every handler to completion, and the reactions of a promise   *)
(* that is already settled run in the microtask checkpoint of the same     *)
(* task, so each handler together with the reactions it triggers is one    *)
(* atomic action.                                                          *)
(***************************************************************************)
EXTENDS Integers, Sequences, FiniteSets, Bags, TLC

\* ------------------------------------------------------------------ bounds
MaxSessions == 2    \* backend sessions (ai.live.connect calls) over a run
MaxFrames == 3    \* inbound client frames handled over a run, one connection
MaxPairFrames == 2    \* inbound client frames handled over a run, two connections
MaxEvents == 2    \* backend onmessage events over a run
MaxRequests == 1    \* POST /api/generate-tts requests over a run
MaxClock == 2    \* milliseconds Date.now() advances through over a run
MaxPairRequests == 2    \* /api/generate-tts requests in flight together (SpecTtsPair)

Conns     == {"c1", "c2"}          \* client transports (the ws of a connection)
NULL      == 0                     \* liveSessionPromise = null

SessionIds == 1..MaxSessions

VARIABLES
    ws,                  \* ws.readyState of each connection
    liveSessionPromise,  \* the closure variable of each connection: NULL or a session id
    sessions,            \* the backend sessions created so far, by id
    outbox,              \* the ws.send calls of each connection: a bag of envelopes
    process,             \* "running", or "crashed" by an unhandled rejection
    nFrames,             \* inbound frames handled so far
    lastFrame,           \* the frame of the last ws 'message' event, and its connection
    nEvents,             \* backend onmessage events so far
    relay,               \* the serverContent of the gemini-message envelopes sent, in order
    variant,             \* which server the process runs: "live", the stub relays "chat" and
                         \* "todo", or the earlier speech endpoints "untagged" and "plain"
    suspended,           \* the connect handlers of each connection waiting at an await
    platform,            \* process.platform
    reqs,                \* the HTTP requests received so far, by id
    files,               \* the temp_<ms>.aiff files of the working directory, by <ms>
    now                  \* Date.now()

relayVars == <<ws, liveSessionPromise, sessions, outbox, process, nFrames, lastFrame, nEvents, relay>>
stubVars  == <<variant, suspended>>
ttsVars   == <<platform, reqs, files, now>>

vars == <<ws, liveSessionPromise, sessions, outbox, process, nFrames, lastFrame, nEvents,
          relay, variant, suspended, platform, reqs, files, now>>

\* ------------------------------------------------------------------ frames
\* The frames a client sends. The audio payload of a frame is opaque to the relay:
\* each audio-input frame carries a payload of its own, the number of its arrival.
ConnectFrame(key)  == [type |-> "connect", apiKey |-> key, audioData |-> 0]
AudioFrame(a)      == [type |-> "audio-input", apiKey |-> FALSE, audioData |-> a]
DisconnectFrame    == [type |-> "disconnect", apiKey |-> FALSE, audioData |-> 0]
MalformedFrame     == [type |-> "malformed", apiKey |-> FALSE, audioData |-> 0]
NoFrame            == [type |-> "none", apiKey |-> FALSE, audioData |-> 0]

Frames ==
    {ConnectFrame(k) : k \in BOOLEAN} \cup {AudioFrame(nFrames + 1)}
        \cup {DisconnectFrame, MalformedFrame}

\* The serverContent of a backend event is opaque to the relay: each event carries
\* a content of its own: the connection whose backend session produced it and the
\* number of its arrival.
Contents == {[conn |-> c, seq |-> nEvents + 1] : c \in Conns}

\* A LiveServerMessage as the SDK hands it to onmessage.
ServerMessage(m) == [serverContent |-> m, usageMetadata |-> "usage"]

\* ------------------------------------------------------------ ws.send
\* ws.send(JSON.stringify(envelope)): the call is recorded with the readyState it
\* found; only a call on an OPEN transport reaches the client.
Envelope(c, type, data) == [type |-> type, data |-> data, ready |-> ws[c]]

WsSend(box, c, type, data) ==
    [box EXCEPT ![c] = @ (+) SetToBag({Envelope(c, type, data)})]

\* ---------------------------------------------------------- backend session
\* The promise ai.live.connect returns and the session behind it.
NewSession(c) ==
    [owner     |-> c,
     promise   |-> "pending",       \* pending | fulfilled | rejected
     status    |-> "connecting",    \* connecting | open | errored | closed
     reactions |-> <<>>,            \* .then callbacks waiting for the promise
     closeCalls |-> 0,              \* session.close() calls
     input     |-> <<>>,            \* session.sendRealtimeInput calls
     disc      |-> "none"]          \* the promise's state when `disconnect` was handled

\* The callback of audio-input: session.sendRealtimeInput({media: {data, mimeType}}).
SendReaction(s, a) ==
    [kind |-> "send", data |-> a,
     arrivedPromise |-> sessions[s].promise, arrivedStatus |-> sessions[s].status]

\* The callback of disconnect: session.close().
CloseReaction(s) ==
    [kind |-> "close", data |-> 0,
     arrivedPromise |-> sessions[s].promise, arrivedStatus |-> sessions[s].status]

\* One .then callback run on the resolved session.
RunReaction(sess, r) ==
    IF r.kind = "send"
    THEN [sess EXCEPT !.input = Append(@, [data |-> r.data,
                                            arrivedPromise |-> r.arrivedPromise,
                                            arrivedStatus |-> r.arrivedStatus,
                                            status |-> sess.status])]
    ELSE [sess EXCEPT !.closeCalls = @ + 1]

RECURSIVE RunReactions(_, _)
RunReactions(sess, rs) ==
    IF rs = <<>> THEN sess
    ELSE RunReactions(RunReaction(sess, Head(rs)), Tail(rs))

\* A .then that forgets the callback when the promise is still pending.
Then_DropWhilePending(sess, r) ==
    IF sess.promise = "pending" THEN sess ELSE RunReaction(sess, r)

\* promise.then(cb) with no rejection handler: queued while the promise is pending,
\* run in the same task when it is fulfilled.
Then(sess, r) ==
    IF sess.promise = "pending"
    THEN [sess EXCEPT !.reactions = Append(@, r)]
    ELSE RunReaction(sess, r)

\* ------------------------------------------------------------------- Init
Init ==
    /\ ws = [c \in Conns |-> "OPEN"]
    /\ liveSessionPromise = [c \in Conns |-> NULL]
    /\ sessions = <<>>
    /\ outbox = [c \in Conns |-> EmptyBag]
    /\ process = "running"
    /\ nFrames = 0
    /\ lastFrame = [conn |-> "none", frame |-> NoFrame]
    /\ nEvents = 0
    /\ relay = [c \in Conns |-> <<>>]
    /\ variant = "live"
    /\ suspended = [c \in Conns |-> 0]
    /\ platform = "linux"
    /\ reqs = <<>>
    /\ files = <<>>
    /\ now = 1

\* ------------------------------------------------- ws.on('message') handlers
\* HandleConnect without the `if (!apiKey)` guard.
HandleConnect_NoKeyGuard(c, f, throws) ==
    IF throws
    THEN /\ outbox' = WsSend(outbox, c, "error", "Failed to connect to Gemini")
         /\ UNCHANGED <<ws, liveSessionPromise, sessions, process>>
    ELSE /\ Len(sessions) < MaxSessions
         /\ sessions' = Append(sessions, NewSession(c))
         /\ liveSessionPromise' = [liveSessionPromise EXCEPT ![c] = Len(sessions) + 1]
         /\ UNCHANGED <<ws, outbox, process>>

\* HandleConnect with `liveSessionPromise` declared once for the whole server
\* instead of once per connection.
HandleConnect_SharedHandle(c, f, throws) ==
    IF ~f.apiKey
    THEN /\ outbox' = WsSend(outbox, c, "error", "Missing API key")
         /\ UNCHANGED <<ws, liveSessionPromise, sessions, process>>
    ELSE IF throws
    THEN /\ outbox' = WsSend(outbox, c, "error", "Failed to connect to Gemini")
         /\ UNCHANGED <<ws, liveSessionPromise, sessions, process>>
    ELSE /\ Len(sessions) < MaxSessions
         /\ sessions' = Append(sessions, NewSession(c))
         /\ liveSessionPromise' = [d \in Conns |-> Len(sessions) + 1]
         /\ UNCHANGED <<ws, outbox, process>>

\* message.type === 'connect'
HandleConnect(c, f, throws) ==
    IF ~f.apiKey
    THEN \* if (!apiKey) { ws.send(error 'Missing API key'); return; }
         /\ outbox' = WsSend(outbox, c, "error", "Missing API key")
         /\ UNCHANGED <<ws, liveSessionPromise, sessions, process>>
    ELSE IF throws
    THEN \* the try block throws synchronously: catch (err) { ws.send(error ...) }
         /\ outbox' = WsSend(outbox, c, "error", "Failed to connect to Gemini")
         /\ UNCHANGED <<ws, liveSessionPromise, sessions, process>>
    ELSE \* liveSessionPromise = ai.live.connect({...}): the old value is overwritten
         /\ Len(sessions) < MaxSessions
         /\ sessions' = Append(sessions, NewSession(c))
         /\ liveSessionPromise' = [liveSessionPromise EXCEPT ![c] = Len(sessions) + 1]
         /\ UNCHANGED <<ws, outbox, process>>

\* A .then on a rejected promise makes a second rejected promise nobody handles.
ThenCrashes(s) == s # NULL /\ sessions[s].promise = "rejected"

\* message.type === 'audio-input'
HandleAudioInput(c, f) ==
    LET s == liveSessionPromise[c] IN
    /\ sessions' = IF s = NULL THEN sessions
                   ELSE [sessions EXCEPT ![s] = Then(@, SendReaction(s, f.audioData))]
    /\ process' = IF ThenCrashes(s) THEN "crashed" ELSE process
    /\ UNCHANGED <<ws, liveSessionPromise, outbox>>

\* HandleDisconnect closing only a session that has already resolved
\* (if (session) session.close()), with no .then on a pending promise.
HandleDisconnect_SyncClose(c, f) ==
    LET s == liveSessionPromise[c] IN
    /\ sessions' = IF s = NULL THEN sessions
                   ELSE [sessions EXCEPT
                           ![s] = [(IF @.promise = "fulfilled" THEN RunReaction(@, CloseReaction(s))
                                    ELSE @) EXCEPT !.disc = sessions[s].promise]]
    /\ liveSessionPromise' = [liveSessionPromise EXCEPT ![c] = NULL]
    /\ process' = process
    /\ ws' = [ws EXCEPT ![c] = IF @ = "OPEN" THEN "CLOSING" ELSE @]
    /\ UNCHANGED outbox

\* HandleDisconnect without `liveSessionPromise = null`.
HandleDisconnect_KeepHandle(c, f) ==
    LET s == liveSessionPromise[c] IN
    /\ sessions' = IF s = NULL THEN sessions
                   ELSE [sessions EXCEPT
                           ![s] = [Then(@, CloseReaction(s)) EXCEPT !.disc = sessions[s].promise]]
    /\ process' = IF ThenCrashes(s) THEN "crashed" ELSE process
    /\ ws' = [ws EXCEPT ![c] = IF @ = "OPEN" THEN "CLOSING" ELSE @]
    /\ UNCHANGED <<outbox, liveSessionPromise>>

\* message.type === 'disconnect'
HandleDisconnect(c, f) ==
    LET s == liveSessionPromise[c] IN
    /\ sessions' = IF s = NULL THEN sessions
                   ELSE [sessions EXCEPT
                           ![s] = [Then(@, CloseReaction(s)) EXCEPT !.disc = sessions[s].promise]]
    /\ liveSessionPromise' = [liveSessionPromise EXCEPT ![c] = NULL]
    /\ process' = IF ThenCrashes(s) THEN "crashed" ELSE process
    \* ws.close(): an OPEN transport starts the closing handshake
    /\ ws' = [ws EXCEPT ![c] = IF @ = "OPEN" THEN "CLOSING" ELSE @]
    /\ UNCHANGED outbox

\* HandleMalformed that also gives up the backend handle.
HandleMalformed_DropHandle(c, f) ==
    /\ outbox' = WsSend(outbox, c, "error", "SyntaxError")
    /\ liveSessionPromise' = [liveSessionPromise EXCEPT ![c] = NULL]
    /\ UNCHANGED <<ws, sessions, process>>

\* JSON.parse throws: catch (error) { ws.send(error String(error)) }
HandleMalformed(c, f) ==
    /\ outbox' = WsSend(outbox, c, "error", "SyntaxError")
    /\ UNCHANGED <<ws, liveSessionPromise, sessions, process>>

\* ws.on('message', async (data) => {...}): the handler has no await
OnMessage(c, f, throws) ==
    /\ process = "running"
    /\ ws[c] # "CLOSED"
    /\ nFrames < MaxFrames
    /\ nFrames' = nFrames + 1
    /\ lastFrame' = [conn |-> c, frame |-> f]
    /\ CASE f.type = "connect"     -> HandleConnect(c, f, throws)
         [] f.type = "audio-input" -> ~throws /\ HandleAudioInput(c, f)
         [] f.type = "disconnect"  -> ~throws /\ HandleDisconnect(c, f)
         [] OTHER                  -> ~throws /\ HandleMalformed(c, f)
    /\ UNCHANGED nEvents

\* ws.on('close', () => { console.log(...) }): the transport is gone, nothing else
OnClose(c) ==
    /\ process = "running"
    /\ ws[c] # "CLOSED"
    /\ ws' = [ws EXCEPT ![c] = "CLOSED"]
    /\ UNCHANGED <<liveSessionPromise, sessions, outbox, process, nFrames, lastFrame, nEvents>>

\* -------------------------------------------------- backend session events
\* callbacks.onopen, after which ai.live.connect's promise is fulfilled with the
\* session and the waiting .then callbacks run in order
BackendOpen(s) ==
    /\ process = "running"
    /\ s \in DOMAIN sessions
    /\ sessions[s].status = "connecting" /\ sessions[s].promise = "pending"
    /\ outbox' = WsSend(outbox, sessions[s].owner, "connected", "none")
    /\ sessions' = [sessions EXCEPT
                      ![s] = RunReactions([@ EXCEPT !.status = "open",
                                                    !.promise = "fulfilled",
                                                    !.reactions = <<>>],
                                          sessions[s].reactions)]
    /\ UNCHANGED <<ws, liveSessionPromise, process, nFrames, lastFrame, nEvents>>

\* ai.live.connect's promise is rejected: no .catch and no second argument of
\* .then exists anywhere, so the rejection is unhandled and Node ends the process
ConnectReject(s) ==
    /\ process = "running"
    /\ s \in DOMAIN sessions
    /\ sessions[s].status = "connecting" /\ sessions[s].promise = "pending"
    /\ sessions' = [sessions EXCEPT ![s] = [@ EXCEPT !.promise = "rejected",
                                                     !.status = "closed",
                                                     !.reactions = <<>>]]
    /\ process' = "crashed"
    /\ UNCHANGED <<ws, liveSessionPromise, outbox, nFrames, lastFrame, nEvents>>

\* callbacks.onmessage, relaying only if the connection still holds the session
BackendMessage_HeldOnly(s, m) ==
    /\ process = "running"
    /\ s \in DOMAIN sessions
    /\ sessions[s].status = "open"
    /\ m.conn = sessions[s].owner
    /\ nEvents < MaxEvents
    /\ nEvents' = nEvents + 1
    /\ LET message == ServerMessage(m)
           serverContent == message.serverContent
           held == liveSessionPromise[sessions[s].owner] = s
       IN /\ outbox' = IF held
                       THEN WsSend(outbox, sessions[s].owner, "gemini-message", serverContent)
                       ELSE outbox
          /\ relay' = IF held
                      THEN [relay EXCEPT ![sessions[s].owner] = Append(@, serverContent)]
                      ELSE relay
    /\ UNCHANGED <<ws, liveSessionPromise, sessions, process, nFrames, lastFrame>>

\* callbacks.onmessage
BackendMessage(s, m) ==
    /\ process = "running"
    /\ s \in DOMAIN sessions
    /\ sessions[s].status = "open"
    /\ m.conn = sessions[s].owner
    /\ nEvents < MaxEvents
    /\ nEvents' = nEvents + 1
    /\ LET message == ServerMessage(m)
           serverContent == message.serverContent
       IN /\ outbox' = WsSend(outbox, sessions[s].owner, "gemini-message", serverContent)
          /\ relay' = [relay EXCEPT ![sessions[s].owner] = Append(@, serverContent)]
    /\ UNCHANGED <<ws, liveSessionPromise, sessions, process, nFrames, lastFrame>>

\* callbacks.onerror that connects again after the error.
BackendError_Reconnect(s) ==
    /\ process = "running"
    /\ s \in DOMAIN sessions
    /\ sessions[s].status \in {"connecting", "open"}
    /\ outbox' = WsSend(outbox, sessions[s].owner, "error", "backend error")
    /\ IF Len(sessions) < MaxSessions
       THEN /\ sessions' = Append([sessions EXCEPT ![s].status = "errored"],
                                  NewSession(sessions[s].owner))
            /\ liveSessionPromise' =
                  [liveSessionPromise EXCEPT ![sessions[s].owner] = Len(sessions) + 1]
       ELSE /\ sessions' = [sessions EXCEPT ![s].status = "errored"]
            /\ UNCHANGED liveSessionPromise
    /\ UNCHANGED <<ws, process, nFrames, lastFrame, nEvents>>

\* callbacks.onerror
BackendError(s) ==
    /\ process = "running"
    /\ s \in DOMAIN sessions
    /\ sessions[s].status \in {"connecting", "open"}
    /\ sessions' = [sessions EXCEPT ![s].status = "errored"]
    /\ outbox' = WsSend(outbox, sessions[s].owner, "error", "backend error")
    /\ UNCHANGED <<ws, liveSessionPromise, process, nFrames, lastFrame, nEvents>>

\* callbacks.onclose
BackendClose(s) ==
    /\ process = "running"
    /\ s \in DOMAIN sessions
    /\ sessions[s].status \in {"open", "errored"}
    /\ sessions' = [sessions EXCEPT ![s].status = "closed"]
    /\ outbox' = WsSend(outbox, sessions[s].owner, "disconnected", "none")
    /\ UNCHANGED <<ws, liveSessionPromise, process, nFrames, lastFrame, nEvents>>

\* One client: every handler of one connection and of its backend sessions.
Next ==
    \/ \E f \in Frames, throws \in BOOLEAN :
          OnMessage("c1", f, throws) /\ UNCHANGED <<relay, stubVars, ttsVars>>
    \/ OnClose("c1") /\ UNCHANGED <<relay, stubVars, ttsVars>>
    \/ \E s \in SessionIds : BackendOpen(s) /\ UNCHANGED <<relay, stubVars, ttsVars>>
    \/ \E s \in SessionIds : ConnectReject(s) /\ UNCHANGED <<relay, stubVars, ttsVars>>
    \/ \E s \in SessionIds, m \in Contents :
          BackendMessage(s, m) /\ UNCHANGED <<stubVars, ttsVars>>
    \/ \E s \in SessionIds : BackendError(s) /\ UNCHANGED <<relay, stubVars, ttsVars>>
    \/ \E s \in SessionIds : BackendClose(s) /\ UNCHANGED <<relay, stubVars, ttsVars>>

Spec == Init /\ [][Next]_vars

\* Two clients at once, over shorter runs.
NextPair ==
    \/ \E c \in Conns, f \in Frames, throws \in BOOLEAN :
          /\ nFrames < MaxPairFrames
          /\ OnMessage(c, f, throws) /\ UNCHANGED <<relay, stubVars, ttsVars>>
    \/ \E c \in Conns : OnClose(c) /\ UNCHANGED <<relay, stubVars, ttsVars>>
    \/ \E s \in SessionIds : BackendOpen(s) /\ UNCHANGED <<relay, stubVars, ttsVars>>
    \/ \E s \in SessionIds : ConnectReject(s) /\ UNCHANGED <<relay, stubVars, ttsVars>>
    \/ \E s \in SessionIds, m \in Contents :
          BackendMessage(s, m) /\ UNCHANGED <<stubVars, ttsVars>>
    \/ \E s \in SessionIds : BackendError(s) /\ UNCHANGED <<relay, stubVars, ttsVars>>
    \/ \E s \in SessionIds : BackendClose(s) /\ UNCHANGED <<relay, stubVars, ttsVars>>

SpecPair == Init /\ [][NextPair]_vars

\* ------------------------------------------------------- the stub relays
\* The two earlier relays keep no backend session. Both start with
\* createAiClient(apiKey), which throws without a key. The "chat" stub then calls
\* ai.getGenerativeModel and awaits model.startChat before it sends `connected`:
\* either call may throw, and the await hands control back to the event loop.
\* The "todo" stub sends `connected` at once.
StubConnect(c, f, throws) ==
    /\ variant = "todo" => ~throws
    /\ IF ~f.apiKey \/ throws
         THEN /\ outbox' = WsSend(outbox, c, "error", "handler error")
              /\ UNCHANGED suspended
         ELSE IF variant = "chat"
         THEN /\ suspended' = [suspended EXCEPT ![c] = @ + 1]
              /\ UNCHANGED outbox
         ELSE /\ outbox' = WsSend(outbox, c, "connected", "none")
              /\ UNCHANGED suspended
    /\ UNCHANGED ws

\* The connect handler of the "chat" stub continues after its await.
StubResume(c) ==
    /\ process = "running"
    /\ suspended[c] > 0
    /\ suspended' = [suspended EXCEPT ![c] = @ - 1]
    /\ outbox' = WsSend(outbox, c, "connected", "none")
    /\ UNCHANGED <<ws, liveSessionPromise, sessions, process, nFrames, lastFrame, nEvents,
                   relay, variant>>

\* ws.on('message') of the stubs
StubOnMessage(c, f, throws) ==
    /\ process = "running"
    /\ ws[c] # "CLOSED"
    /\ nFrames < MaxFrames
    /\ nFrames' = nFrames + 1
    /\ lastFrame' = [conn |-> c, frame |-> f]
    /\ CASE f.type = "connect"     -> StubConnect(c, f, throws)
         [] f.type = "audio-input" -> ~throws /\ UNCHANGED <<ws, outbox, suspended>>
         [] f.type = "disconnect"  ->
               /\ ~throws
               /\ ws' = [ws EXCEPT ![c] = IF @ = "OPEN" THEN "CLOSING" ELSE @]
               /\ UNCHANGED <<outbox, suspended>>
         [] OTHER ->
               /\ ~throws
               /\ outbox' = WsSend(outbox, c, "error", "handler error")
               /\ UNCHANGED <<ws, suspended>>
    /\ UNCHANGED <<liveSessionPromise, sessions, process, nEvents, relay, variant>>

InitStub ==
    /\ ws = [c \in Conns |-> "OPEN"]
    /\ liveSessionPromise = [c \in Conns |-> NULL]
    /\ sessions = <<>>
    /\ outbox = [c \in Conns |-> EmptyBag]
    /\ process = "running"
    /\ nFrames = 0
    /\ lastFrame = [conn |-> "none", frame |-> NoFrame]
    /\ nEvents = 0
    /\ relay = [c \in Conns |-> <<>>]
    /\ variant \in {"chat", "todo"}
    /\ suspended = [c \in Conns |-> 0]
    /\ platform = "linux"
    /\ reqs = <<>>
    /\ files = <<>>
    /\ now = 1

NextStub ==
    \/ \E f \in Frames, throws \in BOOLEAN : StubOnMessage("c1", f, throws) /\ UNCHANGED ttsVars
    \/ StubResume("c1") /\ UNCHANGED ttsVars
    \/ OnClose("c1") /\ UNCHANGED <<relay, stubVars, ttsVars>>

SpecStub == InitStub /\ [][NextStub]_vars

\* ============================================== POST /api/generate-tts
\* One request at a time, from arrival to response; POST /api/generate is the
\* other endpoint of the same server.
\* JSON values of a request body. A string is a list of tokens; " " is white space.
Undefined == [t |-> "undefined", v |-> <<>>]
Number    == [t |-> "number", v |-> <<>>]
Str(s)    == [t |-> "string", v |-> s]

Texts       == {Undefined, Str(<<>>), Str(<<"hola">>)}
ApiKeys     == {Undefined, Str(<<"k">>)}
VoiceInputs == {Undefined, Number, Str(<<" ">>), Str(<<" ", "Kore", " ">>),
                Str(<<"Aoede">>), Str(<<"Zephyr">>), Str(<<"constructor">>)}

\* !value
Falsy(x) == x.t = "undefined" \/ (x.t = "string" /\ x.v = <<>>)

\* String.prototype.trim
RECURSIVE TrimStart(_)
TrimStart(s) == IF s # <<>> /\ Head(s) = " " THEN TrimStart(Tail(s)) ELSE s

RECURSIVE TrimEnd(_)
TrimEnd(s) == IF s # <<>> /\ s[Len(s)] = " " THEN TrimEnd(SubSeq(s, 1, Len(s) - 1)) ELSE s

Trim(s) == TrimEnd(TrimStart(s))

\* const { voice: voiceRaw = 'Puck' } = req.body;
\* const voice = typeof voiceRaw === 'string' ? (voiceRaw.trim() || 'Puck') : 'Puck';
Voice(voiceRaw) ==
    IF voiceRaw.t = "string" /\ Trim(voiceRaw.v) # <<>> THEN Trim(voiceRaw.v) ELSE <<"Puck">>

\* const systemVoice = voiceMap[voice] || 'Karen';
voiceMap ==
    [Aoede |-> "Samantha", Charon |-> "Alex", Fenrir |-> "Bruce",
     Kore |-> "Karen", Puck |-> "Daniel", Orion |-> "Alex"]

\* voiceMap is an object literal: a key it does not have is looked up in
\* Object.prototype, whose members are functions (or, for __proto__, an object).
ObjectPrototype ==
    {"constructor", "toString", "toLocaleString", "valueOf", "hasOwnProperty",
     "isPrototypeOf", "propertyIsEnumerable", "__proto__"}

systemVoice(voice) ==
    IF Len(voice) = 1 /\ voice[1] \in DOMAIN voiceMap THEN voiceMap[voice[1]]
    ELSE IF Len(voice) = 1 /\ voice[1] \in ObjectPrototype THEN "function Object() { [native code] }"
    ELSE "Karen"

\* Audio data, base64 encoded: who made it, from which text, in which voice.
Audio(by, text, voice) == [by |-> by, text |-> text, voice |-> voice]
NoAudio == Audio("nobody", <<>>, <<>>)

\* What ai.models.generateContent can come back with: a response with inline
\* audio, a response without, or a rejection.
PrimaryOutcomes == {"audio", "no audio", "rejected"}

\* res.status(code).json(body): the response ends the request.
Respond(r, code, audioBase64, audioMimeType, details) ==
    [r EXCEPT !.pc = "done", !.status = code, !.audioBase64 = audioBase64,
              !.audioMimeType = audioMimeType, !.details = details]

\* The request as the handler starts on it.
NewRequest(text, voiceRaw, apiKey) ==
    [route |-> "/api/generate-tts",
     text |-> text, voiceRaw |-> voiceRaw, apiKey |-> apiKey,
     pc |-> "start",            \* start | primary | say | exited | done
     status |-> 0, audioBase64 |-> NoAudio, audioMimeType |-> "", details |-> <<>>,
     primaryCalls |-> 0,        \* ai.models.generateContent calls
     localCalls |-> 0,          \* generateSystemTTS calls
     geminiError |-> "",        \* what the primary attempt failed with
     localVoice |-> "",         \* the -v argument of say
     tempFile |-> 0,            \* <ms> of temp_<ms>.aiff
     execError |-> FALSE]

\* app.post('/api/generate-tts'), up to its first await or its response
TtsHandler(text, voiceRaw, apiKey) ==
    LET r == NewRequest(text, voiceRaw, apiKey) IN
    IF text.t # "string"
    THEN \* text.substring(0, 50) in the log line throws; the outer catch answers
         Respond(r, 500, NoAudio, "", <<"TypeError">>)
    ELSE IF Falsy(text)
    THEN Respond(r, 400, NoAudio, "", <<"Missing text in request body">>)
    ELSE IF Falsy(apiKey)
    THEN Respond(r, 400, NoAudio, "", <<"Missing Gemini API key">>)
    ELSE [r EXCEPT !.pc = "primary", !.primaryCalls = @ + 1]

TtsRequest(text, voiceRaw, apiKey) ==
    /\ reqs' = Append(reqs, TtsHandler(text, voiceRaw, apiKey))
    /\ UNCHANGED <<platform, files, now>>

\* app.post('/api/generate'), up to its await or its response: createAiClient
\* throws without a key, and the catch answers.
GenerateHandler(prompt, apiKey) ==
    LET r == [NewRequest(prompt, Undefined, apiKey) EXCEPT !.route = "/api/generate"] IN
    IF Falsy(prompt)
    THEN Respond(r, 400, NoAudio, "", <<"Missing prompt in request body">>)
    ELSE IF Falsy(apiKey)
    THEN Respond(r, 500, NoAudio, "", <<"Missing Gemini API key">>)
    ELSE [r EXCEPT !.pc = "primary", !.primaryCalls = @ + 1]

GenerateRequest(prompt, apiKey) ==
    /\ reqs' = Append(reqs, GenerateHandler(prompt, apiKey))
    /\ UNCHANGED <<platform, files, now>>

\* The await of /api/generate returns or throws.
GenerateReturn(i, rejected) ==
    /\ i \in DOMAIN reqs
    /\ reqs[i].route = "/api/generate"
    /\ reqs[i].pc = "primary"
    /\ reqs' = [reqs EXCEPT ![i] =
                  IF rejected THEN Respond(@, 500, NoAudio, "", <<"primary call failed">>)
                  ELSE Respond(@, 200, NoAudio, "", <<>>)]
    /\ UNCHANGED <<platform, files, now>>

\* generateSystemTTS that always speaks in the default voice.
generateSystemTTS_DefaultVoice(r) ==
    [r EXCEPT !.pc = "say", !.localCalls = @ + 1, !.localVoice = "Karen", !.tempFile = now]

\* generateSystemTTS(text, voice) up to exec(command, callback)
generateSystemTTS(r) ==
    [r EXCEPT !.pc = "say", !.localCalls = @ + 1,
              !.localVoice = systemVoice(Voice(r.voiceRaw)),
              !.tempFile = now]

\* PrimaryReturn that falls back to the system voices on every platform.
PrimaryReturn_AnyPlatform(i, outcome) ==
    /\ i \in DOMAIN reqs
    /\ reqs[i].route = "/api/generate-tts"
    /\ reqs[i].pc = "primary"
    /\ LET r == reqs[i]
           geminiError == IF outcome = "rejected" THEN "primary call failed"
                          ELSE "No audio data from Gemini"
       IN reqs' = [reqs EXCEPT ![i] =
             IF outcome = "audio"
             THEN Respond(r, 200, Audio("gemini", r.text.v, Voice(r.voiceRaw)), "audio/L16", <<>>)
             ELSE generateSystemTTS([r EXCEPT !.geminiError = geminiError])]
    /\ UNCHANGED <<platform, files, now>>

\* The await of ai.models.generateContent returns or throws.
PrimaryReturn(i, outcome) ==
    /\ i \in DOMAIN reqs
    /\ reqs[i].route = "/api/generate-tts"
    /\ reqs[i].pc = "primary"
    /\ LET r == reqs[i]
           geminiError == IF outcome = "rejected" THEN "primary call failed"
                          ELSE "No audio data from Gemini"
       IN reqs' = [reqs EXCEPT ![i] =
             IF outcome = "audio"
             THEN Respond(r, 200, Audio("gemini", r.text.v, Voice(r.voiceRaw)), "audio/L16", <<>>)
             ELSE IF platform # "darwin"
             THEN Respond([r EXCEPT !.geminiError = geminiError], 500, NoAudio, "", <<geminiError>>)
             ELSE generateSystemTTS([r EXCEPT !.geminiError = geminiError])]
    /\ UNCHANGED <<platform, files, now>>

\* The say process ends: with an error, or having written its -o file.
SayExit(i, failed) ==
    /\ i \in DOMAIN reqs
    /\ reqs[i].pc = "say"
    /\ reqs' = [reqs EXCEPT ![i] = [@ EXCEPT !.pc = "exited", !.execError = failed]]
    /\ files' = IF failed THEN files
                ELSE [f \in DOMAIN files \cup {reqs[i].tempFile} |->
                        IF f = reqs[i].tempFile
                        THEN Audio("say", reqs[i].text.v, <<reqs[i].localVoice>>)
                        ELSE files[f]]
    /\ UNCHANGED <<platform, now>>

\* ExecCallback that runs the local synthesis again when say failed.
ExecCallback_Retry(i) ==
    /\ i \in DOMAIN reqs
    /\ reqs[i].pc = "exited"
    /\ LET r == reqs[i] IN
       IF r.execError
       THEN /\ reqs' = [reqs EXCEPT ![i] = generateSystemTTS(r)]
            /\ UNCHANGED files
       ELSE IF platform = "darwin" /\ r.tempFile \in DOMAIN files
       THEN /\ reqs' = [reqs EXCEPT ![i] = Respond(r, 200, files[r.tempFile], "audio/aiff", <<>>)]
            /\ files' = [f \in DOMAIN files \ {r.tempFile} |-> files[f]]
       ELSE /\ reqs' = [reqs EXCEPT ![i] = Respond(r, 500, NoAudio, "", <<"TTS generation failed">>)]
            /\ UNCHANGED files
    /\ UNCHANGED <<platform, now>>

\* The callback of exec, and the handler continuing after its await.
ExecCallback(i) ==
    /\ i \in DOMAIN reqs
    /\ reqs[i].pc = "exited"
    /\ LET r == reqs[i] IN
       IF r.execError
       THEN /\ reqs' = [reqs EXCEPT ![i] = Respond(r, 500, NoAudio, "", <<"say failed">>)]
            /\ UNCHANGED files
       ELSE IF platform = "darwin" /\ r.tempFile \in DOMAIN files
       THEN /\ reqs' = [reqs EXCEPT ![i] = Respond(r, 200, files[r.tempFile], "audio/aiff", <<>>)]
            /\ files' = [f \in DOMAIN files \ {r.tempFile} |-> files[f]]
       ELSE /\ reqs' = [reqs EXCEPT ![i] = Respond(r, 500, NoAudio, "", <<"TTS generation failed">>)]
            /\ UNCHANGED files
    /\ UNCHANGED <<platform, now>>

\* A millisecond passes.
Tick ==
    /\ now < MaxClock
    /\ now' = now + 1
    /\ UNCHANGED <<platform, reqs, files>>

InitTts ==
    /\ ws = [c \in Conns |-> "OPEN"]
    /\ liveSessionPromise = [c \in Conns |-> NULL]
    /\ sessions = <<>>
    /\ outbox = [c \in Conns |-> EmptyBag]
    /\ process = "running"
    /\ nFrames = 0
    /\ lastFrame = [conn |-> "none", frame |-> NoFrame]
    /\ nEvents = 0
    /\ relay = [c \in Conns |-> <<>>]
    /\ variant = "live"
    /\ suspended = [c \in Conns |-> 0]
    /\ platform \in {"darwin", "linux"}
    /\ reqs = <<>>
    /\ files = <<>>
    /\ now = 1

NextTts ==
    \/ \E text \in Texts, voiceRaw \in VoiceInputs, apiKey \in ApiKeys :
          /\ Len(reqs) < MaxRequests
          /\ TtsRequest(text, voiceRaw, apiKey) /\ UNCHANGED <<relayVars, stubVars>>
    \/ \E prompt \in Texts, apiKey \in ApiKeys :
          /\ Len(reqs) < MaxRequests
          /\ GenerateRequest(prompt, apiKey) /\ UNCHANGED <<relayVars, stubVars>>
    \/ \E i \in DOMAIN reqs, rejected \in BOOLEAN :
          GenerateReturn(i, rejected) /\ UNCHANGED <<relayVars, stubVars>>
    \/ \E i \in DOMAIN reqs, outcome \in PrimaryOutcomes :
          PrimaryReturn(i, outcome) /\ UNCHANGED <<relayVars, stubVars>>
    \/ \E i \in DOMAIN reqs, failed \in BOOLEAN :
          SayExit(i, failed) /\ UNCHANGED <<relayVars, stubVars>>
    \/ \E i \in DOMAIN reqs : ExecCallback(i) /\ UNCHANGED <<relayVars, stubVars>>
    \/ Tick /\ UNCHANGED <<relayVars, stubVars>>

SpecTts == InitTts /\ [][NextTts]_vars

\* Requests that all reach the primary call, with texts that tell them apart.
PairTexts == {Str(<<"hola">>), Str(<<"adios">>)}

\* Several /api/generate-tts requests served by the one process, their awaits
\* interleaving.
NextTtsPair ==
    \/ \E text \in PairTexts :
          /\ Len(reqs) < MaxPairRequests
          /\ TtsRequest(text, Undefined, Str(<<"k">>)) /\ UNCHANGED <<relayVars, stubVars>>
    \/ \E i \in DOMAIN reqs, outcome \in PrimaryOutcomes :
          PrimaryReturn(i, outcome) /\ UNCHANGED <<relayVars, stubVars>>
    \/ \E i \in DOMAIN reqs, failed \in BOOLEAN :
          SayExit(i, failed) /\ UNCHANGED <<relayVars, stubVars>>
    \/ \E i \in DOMAIN reqs : ExecCallback(i) /\ UNCHANGED <<relayVars, stubVars>>
    \/ Tick /\ UNCHANGED <<relayVars, stubVars>>

SpecTtsPair == InitTts /\ [][NextTtsPair]_vars

\* The say process that exec started ends, and the event loop runs its callback.
\* The generateContent call is a network request made without a timeout: nothing
\* makes it return.
LocalStep ==
    /\ \E i \in DOMAIN reqs : (\E failed \in BOOLEAN : SayExit(i, failed)) \/ ExecCallback(i)
    /\ UNCHANGED <<relayVars, stubVars>>

SpecTtsFair == InitTts /\ [][NextTts]_vars /\ WF_vars(LocalStep)

\* ------------------------------------------- the earlier speech endpoints
\* src/server.js holds two earlier forms of POST /api/generate-tts. "untagged"
\* has the same two tiers, takes `voice` as it comes (default 'Kore', no trim) and
\* answers {audioBase64} without audioMimeType. "plain" has one tier, no apiKey
\* check of its own, and answers with whatever audio the response holds.
EarlierVoice(voiceRaw) ==
    IF voiceRaw.t = "undefined" THEN <<"Kore">>
    ELSE IF voiceRaw.t = "string" THEN voiceRaw.v
    ELSE <<"7">>

EarlierTtsHandler(text, voiceRaw, apiKey) ==
    LET r == NewRequest(text, voiceRaw, apiKey) IN
    IF variant = "untagged"
    THEN TtsHandler(text, voiceRaw, apiKey)
    ELSE IF Falsy(text)
    THEN Respond(r, 400, NoAudio, "", <<"Missing text in request body">>)
    ELSE IF Falsy(apiKey)
    THEN \* createAiClient throws; the catch answers
         Respond(r, 500, NoAudio, "", <<"Missing Gemini API key">>)
    ELSE [r EXCEPT !.pc = "primary", !.primaryCalls = @ + 1]

EarlierTtsRequest(text, voiceRaw, apiKey) ==
    /\ reqs' = Append(reqs, EarlierTtsHandler(text, voiceRaw, apiKey))
    /\ UNCHANGED <<platform, files, now>>

\* The await of ai.models.generateContent returns or throws.
EarlierPrimaryReturn(i, outcome) ==
    /\ i \in DOMAIN reqs
    /\ reqs[i].pc = "primary"
    /\ LET r == reqs[i]
           geminiError == IF outcome = "rejected" THEN "primary call failed"
                          ELSE "No audio data from Gemini"
           audio == Audio("gemini", r.text.v, EarlierVoice(r.voiceRaw))
       IN reqs' = [reqs EXCEPT ![i] =
             IF variant = "plain"
             THEN IF outcome = "rejected"
                  THEN Respond([r EXCEPT !.geminiError = geminiError], 500, NoAudio, "",
                               <<geminiError>>)
                  ELSE \* const audioBase64 = audioData?.data ?? ''; res.json({ audioBase64 })
                       Respond(r, 200, IF outcome = "audio" THEN audio ELSE NoAudio, "", <<>>)
             ELSE IF outcome = "audio"
             THEN Respond(r, 200, audio, "", <<>>)
             ELSE IF platform # "darwin"
             THEN Respond([r EXCEPT !.geminiError = geminiError], 500, NoAudio, "", <<geminiError>>)
             ELSE [r EXCEPT !.geminiError = geminiError, !.pc = "say", !.localCalls = @ + 1,
                            !.localVoice = systemVoice(EarlierVoice(r.voiceRaw)),
                            !.tempFile = now]]
    /\ UNCHANGED <<platform, files, now>>

\* The callback of exec, and the handler continuing after its await.
EarlierExecCallback(i) ==
    /\ i \in DOMAIN reqs
    /\ reqs[i].pc = "exited"
    /\ LET r == reqs[i] IN
       IF r.execError
       THEN /\ reqs' = [reqs EXCEPT ![i] = Respond(r, 500, NoAudio, "", <<"say failed">>)]
            /\ UNCHANGED files
       ELSE IF platform = "darwin" /\ r.tempFile \in DOMAIN files
       THEN /\ reqs' = [reqs EXCEPT ![i] = Respond(r, 200, files[r.tempFile], "", <<>>)]
            /\ files' = [f \in DOMAIN files \ {r.tempFile} |-> files[f]]
       ELSE /\ reqs' = [reqs EXCEPT ![i] = Respond(r, 500, NoAudio, "", <<"TTS generation failed">>)]
            /\ UNCHANGED files
    /\ UNCHANGED <<platform, now>>

InitTtsEarlier ==
    /\ ws = [c \in Conns |-> "OPEN"]
    /\ liveSessionPromise = [c \in Conns |-> NULL]
    /\ sessions = <<>>
    /\ outbox = [c \in Conns |-> EmptyBag]
    /\ process = "running"
    /\ nFrames = 0
    /\ lastFrame = [conn |-> "none", frame |-> NoFrame]
    /\ nEvents = 0
    /\ relay = [c \in Conns |-> <<>>]
    /\ variant \in {"untagged", "plain"}
    /\ suspended = [c \in Conns |-> 0]
    /\ platform \in {"darwin", "linux"}
    /\ reqs = <<>>
    /\ files = <<>>
    /\ now = 1

NextTtsEarlier ==
    \/ \E text \in Texts, voiceRaw \in VoiceInputs, apiKey \in ApiKeys :
          /\ Len(reqs) < MaxRequests
          /\ EarlierTtsRequest(text, voiceRaw, apiKey) /\ UNCHANGED <<relayVars, stubVars>>
    \/ \E i \in DOMAIN reqs, outcome \in PrimaryOutcomes :
          EarlierPrimaryReturn(i, outcome) /\ UNCHANGED <<relayVars, stubVars>>
    \/ \E i \in DOMAIN reqs, failed \in BOOLEAN :
          SayExit(i, failed) /\ UNCHANGED <<relayVars, stubVars>>
    \/ \E i \in DOMAIN reqs : EarlierExecCallback(i) /\ UNCHANGED <<relayVars, stubVars>>
    \/ Tick /\ UNCHANGED <<relayVars, stubVars>>

SpecTtsEarlier == InitTtsEarlier /\ [][NextTtsEarlier]_vars

\* ================================================================ properties
\* The backend sessions a connection created.
Owned(c) == {s \in DOMAIN sessions : sessions[s].owner = c}

\* A backend session that is pending or open and that nobody asked to close.
Live(s) ==
    /\ sessions[s].promise # "rejected"
    /\ sessions[s].status \in {"connecting", "open"}
    /\ sessions[s].closeCalls = 0

\* The ws.send calls of a bag that carry an envelope of the given type.
CountType(b, t) == BagCardinality([e \in {x \in DOMAIN b : x.type = t} |-> b[e]])

\* The session.close() calls made on a session or waiting for its promise.
CloseRequests(sess) ==
    sess.closeCalls + Cardinality({i \in DOMAIN sess.reactions : sess.reactions[i].kind = "close"})

\* This step handled frame f on connection c.
Handled(c, f) == nFrames' = nFrames + 1 /\ lastFrame' = [conn |-> c, frame |-> f]

\* C1: once the client transport has closed, no backend session of the connection
\* is open without session.close() having been called on it (ws.on('close') and the
\* callbacks queued before it release every backend session, also one that opens
\* after the close).
C1_TransportCloseReleasesBackend ==
    \A c \in Conns :
        ws[c] = "CLOSED" =>
            \A s \in Owned(c) : sessions[s].status = "open" => sessions[s].closeCalls > 0

\* C2: a connection has at most one live (pending or open, not closed) backend
\* session in every reachable state.
C2_AtMostOneLiveSession ==
    \A c \in Conns : Cardinality({s \in Owned(c) : Live(s)}) <= 1

QueuedAudio(sess) ==
    LET sends == SelectSeq(sess.reactions, LAMBDA r : r.kind = "send")
    IN  [i \in DOMAIN sends |-> sends[i].data]

\* The audio payloads passed to session.sendRealtimeInput, in order.
Forwarded(sess) == [i \in DOMAIN sess.input |-> sess.input[i].data]

C4_NoAudioAfterTerminal ==
    \A s \in DOMAIN sessions :
        \A i \in DOMAIN sessions[s].input :
            sessions[s].input[i].arrivedStatus \notin {"errored", "closed"}

\* C5: handling a `connect` envelope without apiKey creates no backend session,
\* leaves liveSessionPromise as it was and makes exactly one ws.send call, of an
\* `error` envelope.
C5_MissingCredential ==
    [][\A c \in Conns :
          Handled(c, ConnectFrame(FALSE)) =>
              /\ sessions' = sessions
              /\ liveSessionPromise' = liveSessionPromise
              /\ ws' = ws
              /\ BagCardinality(outbox'[c]) = BagCardinality(outbox[c]) + 1
              /\ CountType(outbox'[c], "error") = CountType(outbox[c], "error") + 1
              /\ \A d \in Conns \ {c} : outbox'[d] = outbox[d]]_vars

\* C5 witness: a connection that holds a backend session has just handled a
\* `connect` without apiKey and has sent its error.
C5_Witness ==
    /\ lastFrame = [conn |-> "c1", frame |-> ConnectFrame(FALSE)]
    /\ liveSessionPromise["c1"] # NULL
    /\ CountType(outbox["c1"], "error") = 1

\* C6: a session whose `disconnect` was handled while its connection promise was
\* pending has exactly one close() waiting while the promise is pending and exactly
\* one close() call once the promise is fulfilled; no session is closed twice.
C6_CloseExactlyOnce ==
    \A s \in DOMAIN sessions :
        /\ sessions[s].closeCalls <= 1
        /\ sessions[s].disc = "pending" =>
              /\ sessions[s].promise = "pending" =>
                    sessions[s].closeCalls = 0 /\ CloseRequests(sessions[s]) = 1
              /\ sessions[s].promise = "fulfilled" =>
                    sessions[s].closeCalls = 1 /\ CloseRequests(sessions[s]) = 1

\* C6 witness: the backend opened after `disconnect` was handled on the pending
\* session, and the session was closed.
C6_Witness ==
    \E s \in DOMAIN sessions :
        /\ sessions[s].disc = "pending"
        /\ sessions[s].promise = "fulfilled"
        /\ sessions[s].closeCalls = 1

\* C7: no `connected` envelope is sent on a transport whose teardown was requested
\* (ws.close() called by `disconnect`, or the transport closed).
C7_NoConnectedAfterTeardown ==
    \A c \in Conns :
        \A e \in BagToSet(outbox[c]) : e.type = "connected" => e.ready = "OPEN"

\* C8: a `disconnect` envelope handled right after another `disconnect` of the same
\* connection makes no backend call and no ws.send call, and every session the
\* connection tore down has exactly one close() called or waiting.
C8_DisconnectIdempotent ==
    [][\A c \in Conns :
          (nFrames > 0 /\ lastFrame = [conn |-> c, frame |-> DisconnectFrame]
              /\ Handled(c, DisconnectFrame)) =>
              /\ sessions' = sessions
              /\ outbox' = outbox
              /\ liveSessionPromise' = liveSessionPromise
              /\ ws' = ws
              /\ process' = process
              /\ \A s \in Owned(c) :
                    (sessions[s].disc # "none" /\ sessions[s].promise # "rejected") =>
                        CloseRequests(sessions'[s]) = 1]_vars

\* C8 witness: three frames were handled, a `connect` that created the only
\* session and then two `disconnect` (no audio was queued or sent, no error was
\* sent), and the session was closed once.
C8_Witness ==
    /\ nFrames = 3
    /\ lastFrame = [conn |-> "c1", frame |-> DisconnectFrame]
    /\ Len(sessions) = 1
    /\ sessions[1].disc # "none"
    /\ sessions[1].closeCalls = 1
    /\ sessions[1].input = <<>>
    /\ CountType(outbox["c1"], "error") = 0

\* C9: a backend session that has reported an error is no longer held by its
\* connection (liveSessionPromise does not refer to it).
C9_ErrorReleasesHandle ==
    \A c \in Conns :
        liveSessionPromise[c] # NULL => sessions[liveSessionPromise[c]].status # "errored"

\* C10: no failure of a backend connection puts the process into a fatal state.
C10_FailureContained == process = "running"

\* The backend sessions of a connection that have opened (onopen has run).
Opened(c) == {s \in Owned(c) : sessions[s].promise = "fulfilled"}

\* C11: a connection has been sent exactly as many `connected` envelopes as backend
\* sessions of it have opened: none before onopen, one per onopen, none for a
\* `connect` that established no backend session.
C11_ConnectedOnlyAfterOpen ==
    \A c \in Conns : CountType(outbox[c], "connected") = Cardinality(Opened(c))

\* C12: handling a frame that fails JSON.parse sends exactly one envelope, an
\* `error`, to the sender and changes nothing else: the backend handle is neither
\* created, replaced nor closed, no backend session changes, and the transport is
\* not closed.
C12_MalformedFrame ==
    [][\A c \in Conns :
          Handled(c, MalformedFrame) =>
              /\ \E e \in DOMAIN outbox'[c] :
                    /\ e.type = "error"
                    /\ outbox' = [outbox EXCEPT ![c] = @ (+) SetToBag({e})]
              /\ liveSessionPromise' = liveSessionPromise
              /\ sessions' = sessions
              /\ ws' = ws
              /\ process' = process]_vars

\* C12 witness: a connection that holds a backend session has just handled a
\* malformed frame and has been sent one `error`.
C12_Witness ==
    /\ lastFrame = [conn |-> "c1", frame |-> MalformedFrame]
    /\ liveSessionPromise["c1"] # NULL
    /\ CountType(outbox["c1"], "error") = 1
    /\ ws["c1"] = "OPEN"

\* The serverContents relayed to a connection, anywhere in its list.
Relayed(c) == {relay[c][i] : i \in DOMAIN relay[c]}

\* C13: every backend onmessage event has been relayed by exactly one ws.send of a
\* `gemini-message` envelope, to the connection that owns its session, carrying
\* the event's serverContent as it came, and the envelopes of a connection are in
\* the order in which the events arrived: none dropped, duplicated or reordered.
C13_RelayOneToOne ==
    /\ \A k \in 1..nEvents :
          Cardinality({<<c, i>> \in Conns \X (1..nEvents) :
                          i \in DOMAIN relay[c] /\ relay[c][i].seq = k}) = 1
    /\ \A c \in Conns :
          /\ \A i \in DOMAIN relay[c] :
                /\ relay[c][i].seq \in 1..nEvents
                /\ relay[c][i].conn = c
                /\ \A j \in DOMAIN relay[c] : i < j => relay[c][i].seq < relay[c][j].seq
          /\ CountType(outbox[c], "gemini-message") = Len(relay[c])
          /\ {e.data : e \in {x \in DOMAIN outbox[c] : x.type = "gemini-message"}} = Relayed(c)

\* C13 witness: two backend events have been relayed to a connection that has two
\* backend sessions open.
C13_Witness ==
    /\ nEvents = 2
    /\ Len(relay["c1"]) = 2
    /\ Cardinality({s \in Owned("c1") : sessions[s].status = "open"}) = 2

\* C14: the frames of a connection are handled one after the other: the audio
\* passed to a backend session, and the audio waiting for it, is in arrival order,
\* and no frame of a connection is handled while the handler of an earlier frame
\* of that connection is suspended.
C14_ArrivalOrder ==
    /\ [](\A s \in DOMAIN sessions :
            LET audio == Forwarded(sessions[s]) \o QueuedAudio(sessions[s])
            IN  \A i, j \in DOMAIN audio : i < j => audio[i] < audio[j])
    /\ [][\A c \in Conns :
              (nFrames' = nFrames + 1 /\ lastFrame'.conn = c) => suspended[c] = 0]_vars

\* C15: a backend connection is attempted only by handling a `connect` envelope
\* that carries a credential, one attempt per envelope, for the connection that
\* sent it (nothing connects again after an error or a close), and no backend
\* session is asked to close more than once.
C15_NoReconnect ==
    /\ [](\A s \in DOMAIN sessions : CloseRequests(sessions[s]) <= 1)
    /\ [][sessions' = sessions
          \/ Len(sessions') = Len(sessions)
          \/ \E c \in Conns :
                /\ Handled(c, ConnectFrame(TRUE))
                /\ sessions' = Append(sessions, NewSession(c))]_vars

\* C15 witness: the only backend session of a connection reported an error, was
\* closed once by a `disconnect`, and no other session was created.
C15_Witness ==
    /\ Len(sessions) = 1
    /\ sessions[1].status = "closed"
    /\ sessions[1].closeCalls = 1
    /\ \E e \in DOMAIN outbox["c1"] : e.type = "error" /\ e.data = "backend error"
    /\ lastFrame = [conn |-> "c1", frame |-> DisconnectFrame]

\* This step made n ws.send calls with an `error` envelope on connection c.
ErrorsSent(c, n) == CountType(outbox'[c], "error") = CountType(outbox[c], "error") + n

\* C16: no error takes the client transport away. The server closes a transport
\* only in the step that handles its `disconnect`; a malformed frame, a `connect`
\* without credential, a backend error and a failed backend connect each send one
\* `error` envelope and leave the transport, and the process serving it, as
\* they were.
C16_ErrorsKeepTransport ==
    [][/\ \A c \in Conns :
            /\ (ws'[c] # ws[c] /\ ws'[c] = "CLOSING") => Handled(c, DisconnectFrame)
            /\ (Handled(c, MalformedFrame) \/ Handled(c, ConnectFrame(FALSE)))
                  => ErrorsSent(c, 1) /\ ws' = ws /\ process' = process
       /\ \A s \in DOMAIN sessions :
            LET backendError == sessions[s].status # "errored" /\ sessions'[s].status = "errored"
                connectFailed == sessions[s].promise # "rejected" /\ sessions'[s].promise = "rejected"
            IN  (backendError \/ connectFailed)
                  => ErrorsSent(sessions[s].owner, 1) /\ ws' = ws /\ process' = process]_vars

\* What the closure of one connection holds, its transport, its backend handle,
\* the backend sessions it created and the envelopes sent to it, is after this
\* step as it was before.
Untouched(c) ==
    /\ ws'[c] = ws[c]
    /\ liveSessionPromise'[c] = liveSessionPromise[c]
    /\ outbox'[c] = outbox[c]
    /\ relay'[c] = relay[c]
    /\ suspended'[c] = suspended[c]
    /\ \A s \in DOMAIN sessions' :
          sessions'[s].owner = c => s \in DOMAIN sessions /\ sessions'[s] = sessions[s]

\* C17: the step that handles a frame of a connection, and the step of a callback
\* of one of its backend sessions, leaves the state of every other connection as
\* it was; no step changes the state of two connections. (The handlers and the
\* callbacks onopen, onmessage, onerror and onclose also leave the process
\* running: only the rejection of a connect promise, which is none of them, ends
\* it.)
C17_SessionsIsolated ==
    [][/\ \E c \in Conns : \A d \in Conns \ {c} : Untouched(d)
       /\ \A c \in Conns :
            (nFrames' = nFrames + 1 /\ lastFrame'.conn = c)
               => /\ \A d \in Conns \ {c} : Untouched(d)
                  /\ process' = process
       /\ \A s \in DOMAIN sessions :
            (sessions'[s] # sessions[s] /\ sessions'[s].promise # "rejected")
               => /\ \A d \in Conns \ {sessions[s].owner} : Untouched(d)
                  /\ process' = process]_vars

\* C17 witness: both connections hold a backend session of their own, and the
\* backend of the first has opened while the second is still connecting.
C17_Witness ==
    /\ liveSessionPromise["c1"] # NULL
    /\ liveSessionPromise["c2"] # NULL
    /\ liveSessionPromise["c1"] # liveSessionPromise["c2"]
    /\ sessions[liveSessionPromise["c1"]].status = "open"
    /\ sessions[liveSessionPromise["c2"]].status = "connecting"
    /\ CountType(outbox["c1"], "connected") = 1
    /\ outbox["c2"] = EmptyBag

\* The requests whose primary synthesis attempt has failed.
PrimaryFailed == {i \in DOMAIN reqs : reqs[i].geminiError # ""}

\* C18: where the platform is not darwin, a request whose primary attempt failed
\* has been answered with status 500 and the primary failure as details, and
\* generateSystemTTS was not called for it.
C18_NoFallbackOffPlatform ==
    platform # "darwin" =>
        \A i \in PrimaryFailed :
            /\ reqs[i].pc = "done"
            /\ reqs[i].status = 500
            /\ reqs[i].details = <<reqs[i].geminiError>>
            /\ reqs[i].localCalls = 0

\* C18 witness: on linux, a request whose primary call came back without audio
\* was answered with 500.
C18_Witness ==
    /\ platform = "linux"
    /\ \E i \in DOMAIN reqs :
          /\ reqs[i].geminiError = "No audio data from Gemini"
          /\ reqs[i].status = 500
          /\ reqs[i].primaryCalls = 1

\* C19: on darwin, a request whose primary attempt failed has called
\* generateSystemTTS once, with the system voice the table gives for the request's
\* voice; when say wrote its file and the callback read it, the answer is 200
\* with audioMimeType audio/aiff and the audio say made, which is not empty; the
\* answer is 500 only when the local attempt failed.
C19_FallbackOnPlatform ==
    platform = "darwin" =>
        \A i \in PrimaryFailed :
            LET r == reqs[i] IN
            /\ r.localCalls = 1
            /\ r.localVoice = systemVoice(Voice(r.voiceRaw))
            /\ r.pc = "done" =>
                  \/ /\ r.status = 200
                     /\ r.audioMimeType = "audio/aiff"
                     /\ r.audioBase64 # NoAudio
                     /\ r.audioBase64.by = "say"
                     /\ ~r.execError
                  \/ /\ r.status = 500
                     /\ r.details \in {<<"say failed">>, <<"TTS generation failed">>}

\* C19 witness: on darwin, a request for the voice " Kore " whose primary call was
\* rejected was answered with 200 and the audio say made with the voice Karen.
C19_Witness ==
    /\ platform = "darwin"
    /\ \E i \in DOMAIN reqs :
          /\ reqs[i].voiceRaw = Str(<<" ", "Kore", " ">>)
          /\ reqs[i].geminiError = "primary call failed"
          /\ reqs[i].status = 200
          /\ reqs[i].audioBase64 = Audio("say", <<"hola">>, <<"Karen">>)

\* C20: a request whose text is missing or empty, or whose apiKey is missing, has
\* been answered with status 400 and has made no primary and no local call.
C20_InvalidRequest ==
    \A i \in DOMAIN reqs :
        (reqs[i].route = "/api/generate-tts" /\ (Falsy(reqs[i].text) \/ Falsy(reqs[i].apiKey))) =>
            /\ reqs[i].status = 400
            /\ reqs[i].primaryCalls = 0
            /\ reqs[i].localCalls = 0

\* The audio the primary provider returned for a request.
PrimaryAudio(r) == r.audioBase64.by = "gemini"

\* C21: a request answered from the primary provider's audio has status 200, the
\* audio the provider made for its text, and the provider's encoding as
\* audioMimeType, and generateSystemTTS was not called for it.
C21_PrimarySuccess ==
    \A i \in DOMAIN reqs :
        (reqs[i].pc = "done" /\ reqs[i].primaryCalls = 1 /\ reqs[i].geminiError = ""
            /\ reqs[i].route = "/api/generate-tts" /\ PrimaryAudio(reqs[i])) =>
            /\ reqs[i].status = 200
            /\ reqs[i].audioBase64.text = reqs[i].text.v
            /\ reqs[i].audioMimeType = "audio/L16"
            /\ reqs[i].localCalls = 0

\* C22: every request that reached the primary synthesis call is answered in the
\* end, also when that call never returns.
C22_EveryRequestAnswered ==
    \A i \in 1..MaxRequests :
        (i \in DOMAIN reqs /\ reqs[i].route = "/api/generate-tts" /\ reqs[i].pc = "primary")
            ~> (i \in DOMAIN reqs /\ reqs[i].pc = "done")

\* C23: a request has made at most one ai.models.generateContent call and at most
\* one generateSystemTTS call, and a generateSystemTTS call only after its own
\* primary call failed.
C23_OneAttemptPerTier ==
    \A i \in DOMAIN reqs :
        /\ reqs[i].primaryCalls <= 1
        /\ reqs[i].localCalls <= 1
        /\ reqs[i].localCalls = 1 => reqs[i].primaryCalls = 1 /\ reqs[i].geminiError # ""

\* C23 witness: a request whose primary call and whose local synthesis both
\* failed was answered after one attempt of each.
C23_Witness ==
    \E i \in DOMAIN reqs :
        /\ reqs[i].pc = "done"
        /\ reqs[i].status = 500
        /\ reqs[i].execError
        /\ reqs[i].primaryCalls = 1
        /\ reqs[i].localCalls = 1

\* C24: a request answered 500 after its primary call and its local synthesis
\* both failed names both errors in the details of the answer.
C24_BothDiagnostics ==
    \A i \in DOMAIN reqs :
        (reqs[i].pc = "done" /\ reqs[i].status = 500
            /\ reqs[i].primaryCalls = 1 /\ reqs[i].localCalls = 1) =>
            /\ \E k \in DOMAIN reqs[i].details : reqs[i].details[k] = reqs[i].geminiError
            /\ \E k \in DOMAIN reqs[i].details :
                   reqs[i].details[k] \in {"say failed", "TTS generation failed"}

\* C25: for every voice a request can carry, the voice given to the primary
\* call is a non-empty name, and the voice given to say is a non-empty name
\* that is the table's entry for a name of the table and "Karen" for every
\* other name.
C25_VoiceResolutionTotal ==
    \A i \in DOMAIN reqs :
        reqs[i].route = "/api/generate-tts" =>
            LET voice == Voice(reqs[i].voiceRaw) IN
            /\ voice # <<>>
            /\ reqs[i].localCalls = 1 =>
                  /\ reqs[i].localVoice # ""
                  /\ reqs[i].localVoice =
                        IF Len(voice) = 1 /\ voice[1] \in DOMAIN voiceMap
                        THEN voiceMap[voice[1]] ELSE "Karen"

\* C26: on /api/generate and /api/generate-tts a request without prompt or
\* text, or without apiKey, is answered 400, and a request is answered 500
\* only after a call of ai.models.generateContent was made for it.
C26_InputErrors400 ==
    \A i \in DOMAIN reqs :
        reqs[i].pc = "done" =>
            /\ (Falsy(reqs[i].text) \/ Falsy(reqs[i].apiKey)) => reqs[i].status = 400
            /\ reqs[i].status = 500 => reqs[i].primaryCalls >= 1

\* C27: a request of /api/generate-tts answered 200 carries audio data: an
\* answer of the primary call without audio data is never passed on as a
\* success.
C27_SuccessHasAudio ==
    \A i \in DOMAIN reqs :
        (reqs[i].route = "/api/generate-tts" /\ reqs[i].pc = "done" /\ reqs[i].status = 200) =>
            /\ reqs[i].audioBase64 # NoAudio
            /\ reqs[i].audioBase64.by \in {"gemini", "say"}

\* C28: no backend callback calls ws.send on a transport the `disconnect` branch
\* has called ws.close() on: no `connected`, `gemini-message` or `disconnected`
\* envelope, and no `error` envelope of onerror, found the transport CLOSING.
C28_NoSendAfterServerClose ==
    \A c \in Conns :
        \A e \in BagToSet(outbox[c]) :
            (\/ e.type \in {"connected", "gemini-message", "disconnected"}
             \/ (e.type = "error" /\ e.data = "backend error")) => e.ready # "CLOSING"

\* C29: on a connection whose `disconnect` was handled (ws.close() called, the
\* transport CLOSING or CLOSED after it) no step makes a new backend session:
\* the sessions of the connection stay the ones it had.
C29_NoSessionAfterDisconnect ==
    [][\A c \in Conns : ws[c] = "CLOSING" => Owned(c)' = Owned(c)]_vars

\* C30: requests whose local synthesis runs at the same time have each a file
\* of their own: two say runs in flight never write the same tempFile, a
\* request answered with audio of say gets the audio of its own text, and no
\* request whose say ended without error is answered 'TTS generation failed'
\* on darwin.
C30_OwnTempFile ==
    /\ \A i, j \in DOMAIN reqs :
          (i # j /\ reqs[i].pc \in {"say", "exited"} /\ reqs[j].pc \in {"say", "exited"}) =>
              reqs[i].tempFile # reqs[j].tempFile
    /\ \A i \in DOMAIN reqs :
          (reqs[i].pc = "done" /\ reqs[i].localCalls = 1) =>
              /\ reqs[i].status = 200 => reqs[i].audioBase64.text = reqs[i].text.v
              /\ (platform = "darwin" /\ ~reqs[i].execError) => reqs[i].status = 200

====
